---- MODULE Spec2Model ----
(***************************************************************************)
(* RNG providers of src/src/llama-rng-provider.h: the RNGProvider base     *)
(* class (value log), the uniform, normal, external-api and fpga-serial    *)
(* backends and the factory create_rng_provider.                           *)
(*                                                                         *)
(* A double is modelled as an exact fraction num/den with a sign; num and  *)
(* den are naturals written as a pair <<hi, lo>> = hi * 65536 + lo, so     *)
(* that an unsigned 32-bit integer keeps its full width.                   *)
(***************************************************************************)
EXTENDS Integers, Sequences, FiniteSets, TLC

VARIABLES prov, files, last, libcurl, capi, par

vars == <<prov, files, last, libcurl, capi, par>>

\* ---------------------------------------------------------------- bounds
MaxCalls == 2
MaxClock == 1
MaxRedirects == 1

\* ------------------------------------------------- naturals <<hi, lo>>
Limb == 65536

Nat2(n) == <<n \div Limb, n % Limb>>

Le2(a, b) == a[1] < b[1] \/ (a[1] = b[1] /\ a[2] <= b[2])

Lt2(a, b) == a[1] < b[1] \/ (a[1] = b[1] /\ a[2] < b[2])

Mul2(a, k) == <<a[1] * k + (a[2] * k) \div Limb, (a[2] * k) % Limb>>

Sub2(a, b) ==
    IF a[2] >= b[2] THEN <<a[1] - b[1], a[2] - b[2]>>
    ELSE <<a[1] - b[1] - 1, a[2] + Limb - b[2]>>

\* ------------------------------------------------------------- doubles
Dbl(neg, num, den) == [neg |-> neg, num |-> num, den |-> den]

Zero == Dbl(FALSE, <<0, 0>>, <<0, 1>>)

One == Dbl(FALSE, <<0, 1>>, <<0, 1>>)

\* no value (the call raised)
NoVal == Dbl(FALSE, <<0, 0>>, <<0, 0>>)

IsVal(v) == v.den # <<0, 0>>

\* the double of the fraction n/d: 0.0 and 1.0 have one representation
Frac(neg, n, d) ==
    IF n = <<0, 0>> THEN Zero
    ELSE IF n = d /\ ~neg THEN One
    ELSE Dbl(neg, n, d)

IsNegative(v) == v.neg /\ v.num # <<0, 0>>

\* v < 0.0, 0.0 < v, v < 1.0, 1.0 < v
LtZero(v) == IsNegative(v)

GtZero(v) == ~v.neg /\ v.num # <<0, 0>>

LtOne(v) == v.neg \/ Lt2(v.num, v.den)

GtOne(v) == ~v.neg /\ Lt2(v.den, v.num)

InUnit(v) == IsVal(v) /\ ~LtZero(v) /\ ~GtOne(v)

\* a clamp into [0, 1): what is not below 1 becomes the last value below 1
MinOneOpen(v) == IF LtOne(v) THEN v ELSE Dbl(FALSE, <<65535, 65534>>, <<65535, 65535>>)

\* std::min(1.0, v): (v < 1.0) ? v : 1.0
MinOne(v) == IF LtOne(v) THEN v ELSE One

\* std::max(0.0, v): (0.0 < v) ? v : 0.0
MaxZero(v) == IF GtZero(v) THEN v ELSE Zero

\* a clamp that forgets the upper bound
ClampLowerOnly(v) == MaxZero(v)

Clamp(v) == MaxZero(MinOne(v))

\* ------------------------------------------- std::fixed, setprecision(10)
Precision == 10

\* the quotient digit t \div d, for t < 10 * d
Digit(t, d) == CHOOSE c \in 0..9 : Le2(Mul2(d, c), t) /\ Lt2(t, Mul2(d, c + 1))

RECURSIVE FracDigits(_, _, _)
FracDigits(rem, d, k) ==
    IF k = 0 THEN <<>>
    ELSE LET t == Mul2(rem, 10)
             q == Digit(t, d)
         IN  <<q>> \o FracDigits(Sub2(t, Mul2(d, q)), d, k - 1)

RECURSIVE FracRem(_, _, _)
FracRem(rem, d, k) ==
    IF k = 0 THEN rem
    ELSE LET t == Mul2(rem, 10)
         IN  FracRem(Sub2(t, Mul2(d, Digit(t, d))), d, k - 1)

\* add one unit in the last place of a digit string
RECURSIVE IncDigits(_)
IncDigits(ds) ==
    IF Len(ds) = 1 THEN <<ds[1] + 1>>
    ELSE IF ds[Len(ds)] < 9 THEN [ds EXCEPT ![Len(ds)] = ds[Len(ds)] + 1]
    ELSE IncDigits(SubSeq(ds, 1, Len(ds) - 1)) \o <<0>>

\* the digits of a value below 10 written with k decimals, rounded to
\* nearest: <<integer digit, d1, ..., dk>>
Decimals(v, k) ==
    LET i   == Digit(v.num, v.den)
        r0  == Sub2(v.num, Mul2(v.den, i))
        ds  == <<i>> \o FracDigits(r0, v.den, k)
        rem == FracRem(r0, v.den, k)
    IN  IF Lt2(v.den, Mul2(rem, 2)) THEN IncDigits(ds) ELSE ds

\* output_file << std::fixed << std::setprecision(10) << value
FormatFixed(v) == Decimals(v, Precision)

\* ------------------------------------------------------ std::mt19937
\* The engine is a library type; it is modelled by a full-period
\* congruential generator over EngineMod states. What the providers rely
\* on is kept: the state is set from the seed alone and every draw is a
\* function of the state and advances it.
EngineMod == 4

EngineSeed(seed) == seed % EngineMod

EngineNext(s) == (5 * s + 3) % EngineMod

\* std::uniform_real_distribution<>(0.0, 1.0)(rng): a value of [0, 1)
UniformReal(s) == Frac(FALSE, Nat2(EngineNext(s)), Nat2(EngineMod))

\* std::normal_distribution<>(0.5, 0.15)(rng): 0.5 + 0.15 * z, in
\* hundredths, z = -4, -1, 1, 4 by engine output
NormalTable == <<-10, 35, 65, 110>>

NormalReal(s) ==
    LET h == NormalTable[EngineNext(s) + 1]
    IN  IF h < 0 THEN Frac(TRUE, Nat2(0 - h), Nat2(100))
        ELSE Frac(FALSE, Nat2(h), Nat2(100))

\* ------------------------------------------------------- the programs
\* the provider objects of one run; a deleted object is not created again
Inst == {1}

Seeds == {1, 42}

LogPaths == {"rng_values.txt"}

\* a path whose directory does not exist: std::ofstream::open fails
BadPath == "/nodir/rng_values.txt"

FileNames == LogPaths \cup {"", BadPath}

NoStream == [open |-> FALSE, path |-> "", pos |-> 0]

\* a provider object; kind "none" is an object not yet constructed, kind
\* "deleted" one that was destroyed; calls counts its generate() calls and
\* ret holds the values they returned since its log stream was opened;
\* start is the place in the device's byte stream at which the port was
\* opened, rx the bytes read from the descriptor since, tx the bytes
\* written to it; asked is the file name set_output_file was last given
\* when logging was enabled and it could not open the file
NoProv ==
    [kind |-> "none", seed |-> 0, rng |-> 0, debug_enabled |-> FALSE,
     output_file |-> NoStream, api_url |-> "", curl |-> FALSE,
     port_name |-> "", baudrate |-> 0, serial_fd |-> -1,
     calls |-> 0, ret |-> <<>>, start |-> 0, rx |-> 0, tx |-> 0,
     asked |-> ""]

\* RNGProvider::get_name: every constructor passes its kind as the name
get_name(p) == p.kind

\* one line of a log file
Line(t, name, ts, text) == [t |-> t, name |-> name, ts |-> ts, text |-> text]

HoleLine == Line("hole", "", 0, <<>>)

NoFile == [exists |-> FALSE, lines |-> <<>>]

\* a stream writes one line at its own offset (the file is not opened in
\* append mode): it overwrites what is there and leaves a hole when the
\* file has become shorter than the offset
RECURSIVE Holes(_)
Holes(n) == IF n <= 0 THEN <<>> ELSE <<HoleLine>> \o Holes(n - 1)

WriteAt(lines, pos, ln) ==
    IF pos < Len(lines) THEN [lines EXCEPT ![pos + 1] = ln]
    ELSE lines \o Holes(pos - Len(lines)) \o <<ln>>

\* a constructor that takes any value of LLAMA_RNG_DEBUG for a request
BaseInitAnyValue(kind, debug_env) ==
    [NoProv EXCEPT !.kind = kind, !.debug_enabled = (debug_env # "<unset>")]

\* RNGProvider::RNGProvider: LLAMA_RNG_DEBUG is read once, here
BaseInit(kind, debug_env) ==
    [NoProv EXCEPT !.kind = kind, !.debug_enabled = (debug_env = "1")]

\* a set_output_file that opens the file for appending
set_output_file_append(p, filename, fs) ==
    LET closed == [p EXCEPT !.output_file = NoStream]
    IN  IF filename # "" /\ p.debug_enabled /\ filename \in LogPaths
        THEN LET l1 == Line("banner", get_name(p), 0, <<>>)
                 l2 == Line("format", "", 0, <<>>)
                 old == fs[filename].lines
             IN  [p  |-> [closed EXCEPT !.output_file =
                              [open |-> TRUE, path |-> filename,
                               pos |-> Len(old) + 2]],
                  fs |-> [fs EXCEPT ![filename] =
                              [exists |-> TRUE, lines |-> old \o <<l1, l2>>]]]
        ELSE [p |-> closed, fs |-> fs]

\* RNGProvider::set_output_file: the provider and the file system after it
set_output_file(p, filename, fs) ==
    LET closed == [p EXCEPT !.output_file = NoStream]
    IN  IF filename # "" /\ p.debug_enabled /\ filename \in LogPaths
        THEN LET l1 == Line("banner", get_name(p), 0, <<>>)
                 l2 == Line("format", "", 0, <<>>)
             IN  [p  |-> [closed EXCEPT !.output_file =
                              [open |-> TRUE, path |-> filename, pos |-> 2]],
                  fs |-> [fs EXCEPT ![filename] =
                              [exists |-> TRUE, lines |-> <<l1, l2>>]]]
        ELSE [p |-> closed, fs |-> fs]

\* RNGProvider::log_value
log_value(p, value, fs, now) ==
    IF p.output_file.open
    THEN LET f  == p.output_file.path
             ln == Line("data", "", now, FormatFixed(value))
         IN  [p  |-> [p EXCEPT !.output_file.pos = @ + 1],
              fs |-> [fs EXCEPT ![f].lines = WriteAt(@, p.output_file.pos, ln)]]
    ELSE [p |-> p, fs |-> fs]

\* ------------------------------------------------------------ generate
\* what one generate() call did: the provider and the file system after
\* it, whether it returned or raised, the value returned, the raw value
\* before clamping, the calls of curl_easy_perform, the HTTP GETs they
\* issued and the bytes taken from the serial device
Result(p, fs, outcome, value, raw, performs, gets, nread) ==
    [p |-> p, fs |-> fs, outcome |-> outcome, value |-> value, raw |-> raw,
     performs |-> performs, gets |-> gets, nread |-> nread]

Raised(p, fs, performs, gets, nread) ==
    Result(p, fs, "raised", NoVal, NoVal, performs, gets, nread)

\* a generate() that draws again for the log record
UniformGenerateLogDraw(p, fs, now) ==
    LET value == UniformReal(p.rng)
        p1    == [p EXCEPT !.rng = EngineNext(@)]
        lg    == log_value(p1, value, fs, now)
        p2    == IF p.output_file.open THEN [lg.p EXCEPT !.rng = EngineNext(@)]
                 ELSE lg.p
    IN  Result(p2, lg.fs, "returned", value, value, 0, 0, 0)

\* a generate() that fails when logging is enabled and the log is not open
UniformGenerateNeedsLog(p, fs, now) ==
    IF p.asked # ""
    THEN Raised(p, fs, 0, 0, 0)
    ELSE LET value == UniformReal(p.rng)
             lg    == log_value([p EXCEPT !.rng = EngineNext(@)], value, fs, now)
         IN  Result(lg.p, lg.fs, "returned", value, value, 0, 0, 0)

\* UniformRNGProvider::generate
UniformGenerate(p, fs, now) ==
    LET value == UniformReal(p.rng)
        lg    == log_value([p EXCEPT !.rng = EngineNext(@)], value, fs, now)
    IN  Result(lg.p, lg.fs, "returned", value, value, 0, 0, 0)

\* a generate() that draws again when the draw is outside [0, 1]
NormalGenerateResample(p, fs, now) ==
    LET first     == NormalReal(p.rng)
        again     == ~InUnit(first)
        raw_value == IF again THEN NormalReal(EngineNext(p.rng)) ELSE first
        value     == Clamp(raw_value)
        p1        == [p EXCEPT !.rng = IF again THEN EngineNext(EngineNext(@))
                                       ELSE EngineNext(@)]
        lg        == log_value(p1, value, fs, now)
    IN  Result(lg.p, lg.fs, "returned", value, raw_value, 0, 0, 0)

\* a generate() that logs the draw and returns the clamped value
NormalGenerateLogsRaw(p, fs, now) ==
    LET raw_value == NormalReal(p.rng)
        value     == Clamp(raw_value)
        lg        == log_value([p EXCEPT !.rng = EngineNext(@)], raw_value, fs, now)
    IN  Result(lg.p, lg.fs, "returned", value, raw_value, 0, 0, 0)

\* NormalRNGProvider::generate
NormalGenerate(p, fs, now) ==
    LET raw_value == NormalReal(p.rng)
        value     == Clamp(raw_value)
        lg        == log_value([p EXCEPT !.rng = EngineNext(@)], value, fs, now)
    IN  Result(lg.p, lg.fs, "returned", value, raw_value, 0, 0, 0)

\* ------------------------------------------------------ external-api
\* the numbers a response body can carry in its field random
RValues ==
    {Frac(TRUE, Nat2(1), Nat2(2)), Zero, Frac(FALSE, Nat2(73), Nat2(100)),
     One, Frac(FALSE, Nat2(3), Nat2(2))}

\* a response body: text that is not JSON, JSON that is not an object,
\* an object without the field random, an object whose random is not a
\* number, an object whose random is the number r
Body(t, r) == [t |-> t, r |-> r]

Bodies ==
    {Body(t, NoVal) : t \in {"not_json", "not_object", "no_field", "not_number"}}
        \cup {Body("number", r) : r \in RValues}

\* the result codes of curl_easy_perform
CurlCodes == {"CURLE_OK", "CURLE_COULDNT_CONNECT", "CURLE_OPERATION_TIMEDOUT"}

Statuses == {200, 500}

\* what the network does to one transfer: the result code, the redirects
\* followed (CURLOPT_FOLLOWLOCATION), the status and body of the final
\* response
Net(res, nredir, status, body) ==
    [res |-> res, nredir |-> nredir, status |-> status, body |-> body]

Nets ==
    {Net("CURLE_OK", n, st, b) : n \in 0..MaxRedirects, st \in Statuses, b \in Bodies}
    \cup
    {Net(res, n, 0, Body("", NoVal)) :
        res \in CurlCodes \ {"CURLE_OK"}, n \in 0..MaxRedirects}

\* nlohmann::json::parse, contains("random"), is_number()
JsonParses(body) == body.t # "not_json"

JsonHasRandom(body) == body.t \in {"not_number", "number"}

\* a check that takes any field random for a number
JsonRandomAny(body) == TRUE

JsonRandomIsNumber(body) == body.t = "number"

\* a generate() that repeats a failed transfer once before it raises
ExternalGenerateRetry(p, fs, now, net) ==
    IF ~p.curl THEN Raised(p, fs, 0, 0, 0)
    ELSE IF net.res # "CURLE_OK" THEN Raised(p, fs, 2, 2 + net.nredir, 0)
    ELSE IF ~JsonParses(net.body) THEN Raised(p, fs, 1, 1 + net.nredir, 0)
    ELSE IF JsonHasRandom(net.body) /\ JsonRandomIsNumber(net.body)
    THEN LET value == Clamp(net.body.r)
             lg    == log_value(p, value, fs, now)
         IN  Result(lg.p, lg.fs, "returned", value, net.body.r, 1,
                    1 + net.nredir, 0)
    ELSE Raised(p, fs, 1, 1 + net.nredir, 0)

\* a generate() that logs the number of the body before it is clamped
ExternalGenerateLogsRaw(p, fs, now, net) ==
    IF ~p.curl THEN Raised(p, fs, 0, 0, 0)
    ELSE IF net.res # "CURLE_OK" THEN Raised(p, fs, 1, 1 + net.nredir, 0)
    ELSE IF ~JsonParses(net.body) THEN Raised(p, fs, 1, 1 + net.nredir, 0)
    ELSE IF JsonHasRandom(net.body) /\ JsonRandomIsNumber(net.body)
    THEN LET lg    == log_value(p, net.body.r, fs, now)
             value == Clamp(net.body.r)
         IN  Result(lg.p, lg.fs, "returned", value, net.body.r, 1,
                    1 + net.nredir, 0)
    ELSE Raised(p, fs, 1, 1 + net.nredir, 0)

\* ExternalAPIRNGProvider::generate
ExternalGenerate(p, fs, now, net) ==
    IF ~p.curl THEN Raised(p, fs, 0, 0, 0)
    ELSE IF net.res # "CURLE_OK" THEN Raised(p, fs, 1, 1 + net.nredir, 0)
    ELSE IF ~JsonParses(net.body) THEN Raised(p, fs, 1, 1 + net.nredir, 0)
    ELSE IF JsonHasRandom(net.body) /\ JsonRandomIsNumber(net.body)
    THEN LET value == Clamp(net.body.r)
             lg    == log_value(p, value, fs, now)
         IN  Result(lg.p, lg.fs, "returned", value, net.body.r, 1,
                    1 + net.nredir, 0)
    ELSE Raised(p, fs, 1, 1 + net.nredir, 0)

\* ------------------------------------------------------- fpga-serial
\* SerialFPGARNGProvider::is_open
is_open(p) == p.serial_fd >= 0

\* a read_u32 that takes the first byte as the most significant one
read_u32_big_endian(p, bytes, nok) ==
    IF ~is_open(p) THEN [ok |-> FALSE, nread |-> 0, reads |-> 0, u32 |-> <<0, 0>>]
    ELSE IF nok < 4
    THEN [ok |-> FALSE, nread |-> nok, reads |-> nok + 1, u32 |-> <<0, 0>>]
    ELSE [ok |-> TRUE, nread |-> 4, reads |-> 4,
          u32 |-> <<bytes[1] * 256 + bytes[2], bytes[3] * 256 + bytes[4]>>]

\* a read_u32 that takes 0 for the bytes it could not read
read_u32_partial(p, bytes, nok) ==
    IF ~is_open(p) THEN [ok |-> FALSE, nread |-> 0, reads |-> 0, u32 |-> <<0, 0>>]
    ELSE LET b == [k \in 1..4 |-> IF k <= nok THEN bytes[k] ELSE 0]
         IN  [ok |-> TRUE, nread |-> nok, reads |-> IF nok < 4 THEN nok + 1 ELSE 4,
              u32 |-> <<b[4] * 256 + b[3], b[2] * 256 + b[1]>>]

\* SerialFPGARNGProvider::read_u32: nok of the 4 reads deliver a byte
\* (read_byte raises on the first that does not); the integer is
\* <<bytes[3] * 256 + bytes[2], bytes[1] * 256 + bytes[0]>>
read_u32(p, bytes, nok) ==
    IF ~is_open(p) THEN [ok |-> FALSE, nread |-> 0, reads |-> 0, u32 |-> <<0, 0>>]
    ELSE IF nok < 4
    THEN [ok |-> FALSE, nread |-> nok, reads |-> nok + 1, u32 |-> <<0, 0>>]
    ELSE [ok |-> TRUE, nread |-> 4, reads |-> 4,
          u32 |-> <<bytes[4] * 256 + bytes[3], bytes[2] * 256 + bytes[1]>>]

U32Max == <<65535, 65535>>

\* the device streams these bytes over and over; a port is opened at the
\* start of one of its 4-byte words
DeviceCycle ==
    <<0, 0, 0, 0,  255, 0, 0, 0,  255, 255, 255, 255,  0, 0, 0, 128>>

Starts == {0, 8}

\* the n-th byte of the device's stream, n = 0, 1, ...
StreamByte(n) == DeviceCycle[(n % Len(DeviceCycle)) + 1]

\* the next 4 bytes the descriptor of p delivers
Pending(p) == [k \in 1..4 |-> StreamByte(p.start + p.rx + k - 1)]

\* a generate() that puts the bytes of a failed call back
SerialGenerateGivesBack(p, fs, now, bytes, nok) ==
    LET rd == read_u32(p, bytes, nok)
    IN  IF ~rd.ok THEN Raised(p, fs, 0, 0, rd.nread)
        ELSE LET value == Frac(FALSE, rd.u32, U32Max)
                 lg    == log_value([p EXCEPT !.rx = @ + rd.nread], value, fs, now)
             IN  Result(lg.p, lg.fs, "returned", value, value, 0, 0, rd.nread)

\* a generate() that closes the port when a read fails
SerialGenerateClosesOnError(p, fs, now, bytes, nok) ==
    LET rd == read_u32(p, bytes, nok)
        p1 == [p EXCEPT !.rx = @ + rd.nread]
    IN  IF ~rd.ok THEN Raised([p1 EXCEPT !.serial_fd = -1], fs, 0, 0, rd.nread)
        ELSE LET value == Frac(FALSE, rd.u32, U32Max)
                 lg    == log_value(p1, value, fs, now)
             IN  Result(lg.p, lg.fs, "returned", value, value, 0, 0, rd.nread)

\* SerialFPGARNGProvider::generate: the bytes read_byte took from the
\* descriptor are gone from it, also when a later read_byte throws
SerialGenerate(p, fs, now, bytes, nok) ==
    LET rd == read_u32(p, bytes, nok)
        p1 == [p EXCEPT !.rx = @ + rd.nread]
    IN  IF ~rd.ok THEN Raised(p1, fs, 0, 0, rd.nread)
        ELSE LET value == Frac(FALSE, rd.u32, U32Max)
                 lg    == log_value(p1, value, fs, now)
             IN  Result(lg.p, lg.fs, "returned", value, value, 0, 0, rd.nread)

\* -------------------------------------------------------- construction
\* an environment variable that is not set
Unset == "<unset>"

DebugEnvs == {Unset, "1", "true"}

UrlEnvs == {Unset, "http://127.0.0.1:8000/random"}

\* the serial devices a POSIX system can have, in the order in which glob()
\* sorts its matches, and the device of a Windows system
DevSorted ==
    <<"/dev/cu.usbmodem1", "/dev/cu.usbserial-A1", "/dev/cu.usbserial-B2",
      "/dev/ttyUSB0">>

DevPaths == {DevSorted[k] : k \in 1..Len(DevSorted)}

WinPaths == {"COM3"}

PortEnvs == {Unset, "/dev/ttyUSB0"}

WinPortEnvs == {Unset, "COM3"}

BaudEnvs == {Unset, "57600"}

Env(debug, api_url, port, baud) ==
    [debug |-> debug, api_url |-> api_url, port |-> port, baud |-> baud]

\* std::atoi on the values of LLAMA_FPGA_BAUDRATE
Atoi(str) ==
    IF str = "921600" THEN 921600 ELSE IF str = "57600" THEN 57600 ELSE 0

Platforms == {"linux", "macos", "windows"}

\* what the operating system answers during one construction: the device
\* paths that exist, and whether each call succeeds
OS(present, failing) ==
    [present |-> present, curl_init |-> failing # "curl_init",
     open |-> failing # "open", getattr |-> failing # "getattr",
     setattr |-> failing # "setattr", speed |-> failing # "speed",
     failing |-> failing]

\* the calls of open_serial_port that can fail: open / CreateFileA,
\* tcgetattr / GetCommState, tcsetattr / SetCommState,
\* ioctl(IOSSIOSPEED) / SetCommTimeouts
SerialCalls == {"open", "getattr", "setattr", "speed"}

\* UniformRNGProvider::UniformRNGProvider
UniformRNGProvider(seed, env) ==
    [BaseInit("uniform", env.debug) EXCEPT !.seed = seed, !.rng = EngineSeed(seed)]

\* NormalRNGProvider::NormalRNGProvider
NormalRNGProvider(seed, env) ==
    [BaseInit("normal", env.debug) EXCEPT !.seed = seed, !.rng = EngineSeed(seed)]

\* ExternalAPIRNGProvider::ExternalAPIRNGProvider: a null handle is
\* reported on stderr and the object is constructed all the same
\* libcurl counts its global initialisations for the whole process:
\* curl_global_init adds one, curl_global_cleanup takes one away and
\* releases the library's global state when none is left
curl_global_init(n) == n + 1

\* a cleanup that releases the global state at once
curl_global_cleanup_releases(n) == 0

curl_global_cleanup(n) == IF n > 0 THEN n - 1 ELSE 0

ExternalAPIRNGProvider(api_url, env, os) ==
    [p    |-> [BaseInit("external-api", env.debug) EXCEPT
                   !.api_url = api_url, !.curl = os.curl_init],
     diag |-> IF os.curl_init THEN <<>> ELSE <<"Failed to initialize curl">>]

\* patterns tried from the last to the first
PatternsReversed ==
    <<"/dev/cu.usbmodem*", "/dev/ttyUSB*", "/dev/tty.usbserial*", "/dev/cu.usbserial*">>

\* the glob patterns of auto_detect_port, in order, and their matches
Patterns ==
    <<"/dev/cu.usbserial*", "/dev/tty.usbserial*", "/dev/ttyUSB*", "/dev/cu.usbmodem*">>

Matches(pattern, path) ==
    \/ pattern = "/dev/cu.usbserial*"
          /\ path \in {"/dev/cu.usbserial-A1", "/dev/cu.usbserial-B2"}
    \/ pattern = "/dev/ttyUSB*" /\ path = "/dev/ttyUSB0"
    \/ pattern = "/dev/cu.usbmodem*" /\ path = "/dev/cu.usbmodem1"

\* glob(): gl_pathv, the existing paths that match, sorted
Glob(pattern, present) ==
    LET Hit(path) == path \in present /\ Matches(pattern, path)
    IN  SelectSeq(DevSorted, Hit)

\* SerialFPGARNGProvider::auto_detect_port
auto_detect_port(plat, present) ==
    IF plat = "windows" THEN ""
    ELSE LET hits == {k \in 1..Len(Patterns) : Len(Glob(Patterns[k], present)) > 0}
         IN  IF hits = {} THEN ""
             ELSE LET k == CHOOSE h \in hits : \A g \in hits : h <= g
                  IN  Glob(Patterns[k], present)[1]

\* the rates of the switch in open_serial_port
SupportedBaud == {9600, 115200, 921600}

\* an open_serial_port that accepts every baud rate on every platform
open_serial_port_any_baud(plat, port_name, baudrate, os) ==
    IF ~(os.open /\ port_name \in os.present)
    THEN [ok |-> FALSE, fd |-> -1]
    ELSE IF ~os.getattr THEN [ok |-> FALSE, fd |-> 3]
    ELSE IF ~os.setattr
    THEN [ok |-> FALSE, fd |-> IF plat = "windows" THEN 3 ELSE -1]
    ELSE IF plat = "macos" /\ ~os.speed THEN [ok |-> FALSE, fd |-> -1]
    ELSE IF plat = "windows" /\ ~os.speed THEN [ok |-> FALSE, fd |-> 3]
    ELSE [ok |-> TRUE, fd |-> 3]

\* a close_serial_port that leaves the descriptor open
close_serial_port_noop(p) == [p |-> p, closes |-> 0]

\* SerialFPGARNGProvider::close_serial_port: the object after it and the
\* close() / CloseHandle calls it made
close_serial_port(p) ==
    IF is_open(p) THEN [p |-> [p EXCEPT !.serial_fd = -1], closes |-> 1]
    ELSE [p |-> p, closes |-> 0]

\* SerialFPGARNGProvider::~SerialFPGARNGProvider
destroy_serial(p) ==
    IF is_open(p) THEN close_serial_port(p) ELSE [p |-> p, closes |-> 0]

\* SerialFPGARNGProvider::open_serial_port: whether it succeeded and the
\* descriptor it leaves in the object (3 is an open descriptor)
open_serial_port(plat, port_name, baudrate, os) ==
    IF ~(os.open /\ port_name \in os.present)
    THEN [ok |-> FALSE, fd |-> -1]
    ELSE IF ~os.getattr THEN [ok |-> FALSE, fd |-> 3]
    ELSE IF plat = "linux" /\ baudrate \notin SupportedBaud
    THEN [ok |-> FALSE, fd |-> 3]
    ELSE IF ~os.setattr
    THEN [ok |-> FALSE, fd |-> IF plat = "windows" THEN 3 ELSE -1]
    ELSE IF plat = "macos" /\ ~os.speed THEN [ok |-> FALSE, fd |-> -1]
    ELSE IF plat = "windows" /\ ~os.speed THEN [ok |-> FALSE, fd |-> 3]
    ELSE [ok |-> TRUE, fd |-> 3]

\* SerialFPGARNGProvider::write_bytes
write_bytes(p, length) == IF is_open(p) THEN [p EXCEPT !.tx = @ + length] ELSE p

\* SerialFPGARNGProvider::send_toggle_command: one character, which
\* toggles the stream of the device
send_toggle_command(p) == write_bytes(p, 1)

\* a constructor that switches the stream on
SerialFPGARNGProviderToggles(plat, port, baudrate, env, os) ==
    LET port_name == IF port = "" THEN auto_detect_port(plat, os.present) ELSE port
        opened    == IF port_name = "" THEN [ok |-> FALSE, fd |-> -1]
                     ELSE open_serial_port(plat, port_name, baudrate, os)
    IN  IF opened.ok
        THEN [ok |-> TRUE, leak |-> FALSE,
              p |-> send_toggle_command(
                        [BaseInit("fpga-serial", env.debug) EXCEPT
                            !.port_name = port_name, !.baudrate = baudrate,
                            !.serial_fd = opened.fd])]
        ELSE [ok |-> FALSE, leak |-> opened.fd >= 0, p |-> NoProv]

\* SerialFPGARNGProvider::SerialFPGARNGProvider: when it throws, the
\* destructor of the class does not run, and a descriptor that
\* open_serial_port left open stays open (leak)
SerialFPGARNGProvider(plat, port, baudrate, env, os) ==
    LET port_name == IF port = "" THEN auto_detect_port(plat, os.present) ELSE port
        opened    == IF port_name = "" THEN [ok |-> FALSE, fd |-> -1]
                     ELSE open_serial_port(plat, port_name, baudrate, os)
    IN  IF opened.ok
        THEN [ok |-> TRUE, leak |-> FALSE,
              p |-> [BaseInit("fpga-serial", env.debug) EXCEPT
                         !.port_name = port_name, !.baudrate = baudrate,
                         !.serial_fd = opened.fd]]
        ELSE [ok |-> FALSE, leak |-> opened.fd >= 0, p |-> NoProv]

Types == {"uniform", "normal", "external-api", "fpga-serial", "gaussian"}

UrlDiag == "Error: LLAMA_RNG_API_URL environment variable not set for external-api provider"

\* create_rng_provider: the object returned (none when the constructor
\* threw), the lines written to stderr, a descriptor left open
Made(ok, p, diag, leak) == [ok |-> ok, p |-> p, diag |-> diag, leak |-> leak]

\* a factory that constructs the external-api provider without a URL
create_rng_provider_no_fallback(plat, type, seed, env, os) ==
    IF type = "normal" THEN Made(TRUE, NormalRNGProvider(seed, env), <<>>, FALSE)
    ELSE IF type = "external-api"
    THEN LET e == ExternalAPIRNGProvider(
                      IF env.api_url = Unset THEN "" ELSE env.api_url, env, os)
         IN  Made(TRUE, e.p, e.diag, FALSE)
    ELSE IF type = "fpga-serial"
    THEN LET baudrate == IF env.baud = Unset THEN 921600 ELSE Atoi(env.baud)
             port     == IF env.port = Unset THEN "" ELSE env.port
             sp       == SerialFPGARNGProvider(plat, port, baudrate, env, os)
         IN  Made(sp.ok, sp.p, <<>>, sp.leak)
    ELSE Made(TRUE, UniformRNGProvider(seed, env), <<>>, FALSE)

\* a factory that falls back to uniform without its message
create_rng_provider_silent(plat, type, seed, env, os) ==
    IF type = "normal" THEN Made(TRUE, NormalRNGProvider(seed, env), <<>>, FALSE)
    ELSE IF type = "external-api"
    THEN IF env.api_url = Unset
         THEN Made(TRUE, UniformRNGProvider(seed, env), <<>>, FALSE)
         ELSE LET e == ExternalAPIRNGProvider(env.api_url, env, os)
              IN  Made(TRUE, e.p, e.diag, FALSE)
    ELSE IF type = "fpga-serial"
    THEN LET baudrate == IF env.baud = Unset THEN 921600 ELSE Atoi(env.baud)
             port     == IF env.port = Unset THEN "" ELSE env.port
             sp       == SerialFPGARNGProvider(plat, port, baudrate, env, os)
         IN  Made(sp.ok, sp.p, <<>>, sp.leak)
    ELSE Made(TRUE, UniformRNGProvider(seed, env), <<>>, FALSE)

create_rng_provider(plat, type, seed, env, os) ==
    IF type = "normal" THEN Made(TRUE, NormalRNGProvider(seed, env), <<>>, FALSE)
    ELSE IF type = "external-api"
    THEN IF env.api_url = Unset
         THEN Made(TRUE, UniformRNGProvider(seed, env), <<UrlDiag>>, FALSE)
         ELSE LET e == ExternalAPIRNGProvider(env.api_url, env, os)
              IN  Made(TRUE, e.p, e.diag, FALSE)
    ELSE IF type = "fpga-serial"
    THEN LET baudrate == IF env.baud = Unset THEN 921600 ELSE Atoi(env.baud)
             port     == IF env.port = Unset THEN "" ELSE env.port
             sp       == SerialFPGARNGProvider(plat, port, baudrate, env, os)
         IN  Made(sp.ok, sp.p, <<>>, sp.leak)
    ELSE Made(TRUE, UniformRNGProvider(seed, env), <<>>, FALSE)

\* ------------------------------------------------------------- actions
\* what the last operation did, as its caller saw it
Idle ==
    [op |-> "none", inst |-> 0, outcome |-> "none", kind |-> "none",
     value |-> NoVal, raw |-> NoVal, logged |-> FALSE, performs |-> 0,
     gets |-> 0, nredir |-> 0, curl |-> FALSE, res |-> "", status |-> 0,
     body |-> "", nread |-> 0,
     now |-> 0, nth |-> 0, seed |-> 0, type |-> "", url_set |-> FALSE,
     diag |-> <<>>, leak |-> FALSE, plat |-> "",
     bytes |-> <<>>, reads |-> 0, fd |-> -1, closes |-> 0,
     port |-> "", baud |-> 0, present |-> {}, failing |-> "",
     debug |-> "", filename |-> "", opened |-> FALSE, rx |-> 0]

\* a log file left by an earlier run
OldFile ==
    [exists |-> TRUE,
     lines |-> <<Line("banner", "uniform", 0, <<>>), Line("format", "", 0, <<>>),
                 Line("data", "", 0, FormatFixed(One))>>]

\* the programs of the repository that a specification leaves aside have
\* not started
NoProviders == [ctx |-> <<>>, done |-> [op |-> "none"]]

NotStarted == [pc |-> "off"]

Init ==
    /\ prov = [i \in Inst |-> NoProv]
    /\ files \in [LogPaths -> {NoFile, OldFile}]
    /\ last = Idle
    /\ libcurl = 0
    /\ capi = NoProviders
    /\ par = NotStarted

\* the calls of the factory: its arguments, the environment variables and
\* the answers of the operating system, each drawn where the requested
\* type reads it
Request(plat, type, seed, env, os) ==
    [plat |-> plat, type |-> type, seed |-> seed, env |-> env, os |-> os]

Requests ==
    {Request("linux", type, seed, Env(debug, Unset, Unset, Unset), OS({}, "none")) :
        type \in Types \ {"external-api", "fpga-serial"}, seed \in Seeds,
        debug \in DebugEnvs}
    \cup
    {Request("linux", "external-api", seed, Env(debug, url, Unset, Unset), OS({}, failing)) :
        seed \in Seeds, debug \in DebugEnvs, url \in UrlEnvs,
        failing \in {"none", "curl_init"}}
    \cup
    {Request(plat, "fpga-serial", 42, Env(debug, Unset, port, baud), OS(present, failing)) :
        plat \in Platforms \ {"windows"}, debug \in DebugEnvs, port \in PortEnvs,
        baud \in BaudEnvs, present \in SUBSET DevPaths,
        failing \in SerialCalls \cup {"none"}}
    \cup
    {Request("windows", "fpga-serial", 42, Env(debug, Unset, port, baud), OS(present, failing)) :
        debug \in DebugEnvs, port \in WinPortEnvs, baud \in BaudEnvs,
        present \in SUBSET WinPaths, failing \in SerialCalls \cup {"none"}}

\* one call of the factory for object i: the object it makes, what the
\* caller sees, and the process-wide count of libcurl initialisations
Construct(i, c) ==
    LET m == create_rng_provider(c.plat, c.type, c.seed, c.env, c.os)
    IN  /\ \E start \in IF m.p.kind = "fpga-serial" THEN Starts ELSE {0} :
              prov' = [prov EXCEPT ![i] = [m.p EXCEPT !.start = start]]
        /\ last' = [Idle EXCEPT !.op = "create", !.inst = i,
                        !.outcome = IF m.ok THEN "returned" ELSE "raised",
                        !.kind = m.p.kind, !.seed = c.seed, !.type = c.type,
                        !.url_set = (c.env.api_url # Unset),
                        !.diag = m.diag, !.leak = m.leak, !.plat = c.plat,
                        !.port = c.env.port,
                        !.baud = IF c.env.baud = Unset THEN 921600
                                 ELSE Atoi(c.env.baud),
                        !.present = c.os.present,
                        !.failing = c.os.failing, !.debug = c.env.debug]
        /\ libcurl' = IF m.p.kind = "external-api"
                      THEN curl_global_init(libcurl) ELSE libcurl
        /\ UNCHANGED <<files, capi, par>>

\* the caller creates a provider through the factory; when the constructor
\* throws there is no object, and the factory is not called for it again
Create(i) ==
    /\ prov[i].kind = "none"
    /\ last.op = "none"
    /\ \E c \in Requests : Construct(i, c)

\* one call of set_output_file on object i
NameFile(i, filename) ==
    LET r == set_output_file(prov[i], filename, files)
    IN  /\ prov' = [prov EXCEPT ![i] =
                       [r.p EXCEPT !.ret = <<>>,
                                   !.asked = IF r.p.debug_enabled
                                                /\ ~r.p.output_file.open
                                             THEN filename ELSE ""]]
        /\ files' = r.fs
        /\ last' = [Idle EXCEPT !.op = "set_output_file", !.inst = i,
                        !.outcome = "returned", !.kind = prov[i].kind,
                        !.filename = filename,
                        !.opened = r.p.output_file.open,
                        !.logged = (r.fs # files)]
        /\ UNCHANGED <<libcurl, capi, par>>

\* the caller names the log file
SetOutputFile(i) ==
    /\ prov[i].kind \notin {"none", "deleted"}
    /\ \E filename \in FileNames : NameFile(i, filename)

\* the record of one generate() call on provider i
Called(i, r, net, now) ==
    [Idle EXCEPT !.op = "generate", !.inst = i, !.outcome = r.outcome,
                 !.kind = prov[i].kind, !.value = r.value, !.raw = r.raw,
                 !.logged = (r.fs # files), !.performs = r.performs,
                 !.gets = r.gets, !.nredir = IF r.performs > 0 THEN net.nredir ELSE 0,
                 !.curl = prov[i].curl,
                 !.res = IF r.performs > 0 THEN net.res ELSE "",
                 !.status = IF r.performs > 0 THEN net.status ELSE 0,
                 !.body = IF r.performs > 0 THEN net.body.t ELSE "",
                 !.nread = r.nread, !.nth = prov[i].calls + 1, !.now = now,
                 !.seed = prov[i].seed]

NoNet == [res |-> "", nredir |-> 0, status |-> 0, body |-> Body("", NoVal)]

\* the provider and the file system after a generate() call
Done(i, r) ==
    /\ prov' = [prov EXCEPT ![i] =
                   [r.p EXCEPT !.calls = @ + 1,
                               !.ret = IF r.outcome = "returned" /\ prov[i].output_file.open
                                       THEN Append(@, r.value) ELSE @]]
    /\ files' = r.fs
    /\ UNCHANGED <<libcurl, capi, par>>

Finish(i, r, net, now) ==
    /\ Done(i, r)
    /\ last' = Called(i, r, net, IF r.fs # files THEN now ELSE 0)

\* std::chrono::system_clock is the wall clock: between two readings it
\* has advanced or has been set back. A call reads it only in log_value.
Times(p) == IF p.output_file.open THEN 0..MaxClock ELSE {0}

GenerateUniform(i) ==
    /\ prov[i].kind = "uniform"
    /\ prov[i].calls < MaxCalls
    /\ \E now \in Times(prov[i]) :
          Finish(i, UniformGenerate(prov[i], files, now), NoNet, now)

GenerateNormal(i) ==
    /\ prov[i].kind = "normal"
    /\ prov[i].calls < MaxCalls
    /\ \E now \in Times(prov[i]) :
          Finish(i, NormalGenerate(prov[i], files, now), NoNet, now)

GenerateExternal(i) ==
    /\ prov[i].kind = "external-api"
    /\ prov[i].calls < MaxCalls
    /\ \E net \in Nets, now \in Times(prov[i]) :
          Finish(i, ExternalGenerate(prov[i], files, now, net), net, now)

\* the record of a call on the serial provider: the bytes it took from the
\* device, the read() calls it made, the descriptor it started with
SerialCalled(i, r, now, bytes, nok) ==
    [Called(i, r, NoNet, now) EXCEPT
        !.bytes = SubSeq(bytes, 1, r.nread),
        !.reads = read_u32(prov[i], bytes, nok).reads,
        !.fd = prov[i].serial_fd, !.rx = prov[i].rx]

GenerateSerial(i) ==
    /\ prov[i].kind = "fpga-serial"
    /\ prov[i].calls < MaxCalls
    /\ \E nok \in 0..4, now \in Times(prov[i]) :
          LET bytes == Pending(prov[i])
              r     == SerialGenerate(prov[i], files, now, bytes, nok)
          IN  /\ Done(i, r)
              /\ last' = SerialCalled(i, r, IF r.fs # files THEN now ELSE 0,
                                      bytes, nok)

\* delete: ~SerialFPGARNGProvider / ~ExternalAPIRNGProvider, then
\* ~RNGProvider closes the log stream
Destroy(i) ==
    /\ prov[i].kind \notin {"none", "deleted"}
    /\ LET d == IF prov[i].kind = "fpga-serial" THEN destroy_serial(prov[i])
                ELSE [p |-> prov[i], closes |-> 0]
       IN  /\ prov' = [prov EXCEPT ![i] =
                          [NoProv EXCEPT !.kind = "deleted",
                                         !.serial_fd = d.p.serial_fd,
                                         !.tx = d.p.tx]]
           /\ last' = [Idle EXCEPT !.op = "destroy", !.inst = i,
                           !.outcome = "returned", !.kind = prov[i].kind,
                           !.fd = prov[i].serial_fd, !.closes = d.closes]
    /\ libcurl' = IF prov[i].kind = "external-api"
                  THEN curl_global_cleanup(libcurl) ELSE libcurl
    /\ UNCHANGED <<files, capi, par>>

Next ==
    \/ \E i \in Inst : Create(i)
    \/ \E i \in Inst : SetOutputFile(i)
    \/ \E i \in Inst : GenerateUniform(i)
    \/ \E i \in Inst : GenerateNormal(i)
    \/ \E i \in Inst : GenerateExternal(i)
    \/ \E i \in Inst : GenerateSerial(i)
    \/ \E i \in Inst : Destroy(i)

Spec == Init /\ [][Next]_vars

\* ----------------------------------------- the header without fpga-serial
\* The repository holds a second copy of the provider header
\* (src/unnamed/part_009): uniform, normal and external-api, a log that is
\* not gated by LLAMA_RNG_DEBUG and has no timestamps, and an external-api
\* generate() that answers 0.5 when the client handle is null.

\* the zero decimals between the point and the first other digit
RECURSIVE LeadingZeros(_, _)
LeadingZeros(rem, d) ==
    LET t == Mul2(rem, 10)
    IN  IF Digit(t, d) # 0 THEN 0 ELSE 1 + LeadingZeros(t, d)

RECURSIVE StripZeros(_)
StripZeros(ds) ==
    IF Len(ds) > 1 /\ ds[Len(ds)] = 0 THEN StripZeros(SubSeq(ds, 1, Len(ds) - 1))
    ELSE ds

\* output_file << value with the default format: 6 significant digits,
\* trailing zeros removed (values of [0.0001, 10), which are written in
\* fixed notation)
FormatGeneral(v) ==
    IF v.num = <<0, 0>> THEN <<0>>
    ELSE LET i == Digit(v.num, v.den)
             k == IF i > 0 THEN 5
                  ELSE 6 + LeadingZeros(Sub2(v.num, Mul2(v.den, i)), v.den)
         IN  StripZeros(Decimals(v, k))

\* RNGProvider::set_output_file of that header
prior_set_output_file(p, filename, fs) ==
    LET closed == [p EXCEPT !.output_file = NoStream]
    IN  IF filename # "" /\ filename \in LogPaths
        THEN [p  |-> [closed EXCEPT !.output_file =
                          [open |-> TRUE, path |-> filename, pos |-> 1]],
              fs |-> [fs EXCEPT ![filename] =
                          [exists |-> TRUE,
                           lines |-> <<Line("banner", get_name(p), 0, <<>>)>>]]]
        ELSE [p |-> closed, fs |-> fs]

\* RNGProvider::log_value of that header
prior_log_value(p, value, fs) ==
    IF p.output_file.open
    THEN LET f  == p.output_file.path
             ln == Line("data", "", 0, FormatGeneral(value))
         IN  [p  |-> [p EXCEPT !.output_file.pos = @ + 1],
              fs |-> [fs EXCEPT ![f].lines = WriteAt(@, p.output_file.pos, ln)]]
    ELSE [p |-> p, fs |-> fs]

PriorUniformGenerate(p, fs) ==
    LET value == UniformReal(p.rng)
        lg    == prior_log_value([p EXCEPT !.rng = EngineNext(@)], value, fs)
    IN  Result(lg.p, lg.fs, "returned", value, value, 0, 0, 0)

PriorNormalGenerate(p, fs) ==
    LET raw_value == NormalReal(p.rng)
        value     == Clamp(raw_value)
        lg        == prior_log_value([p EXCEPT !.rng = EngineNext(@)], value, fs)
    IN  Result(lg.p, lg.fs, "returned", value, raw_value, 0, 0, 0)

Half == Frac(FALSE, Nat2(1), Nat2(2))

\* ExternalAPIRNGProvider::generate of that header
PriorExternalGenerate(p, fs, net) ==
    IF ~p.curl THEN Result(p, fs, "returned", Half, NoVal, 0, 0, 0)
    ELSE IF net.res # "CURLE_OK" THEN Raised(p, fs, 1, 1 + net.nredir, 0)
    ELSE IF ~JsonParses(net.body) THEN Raised(p, fs, 1, 1 + net.nredir, 0)
    ELSE IF JsonHasRandom(net.body) /\ JsonRandomIsNumber(net.body)
    THEN LET value == Clamp(net.body.r)
             lg    == prior_log_value(p, value, fs)
         IN  Result(lg.p, lg.fs, "returned", value, net.body.r, 1,
                    1 + net.nredir, 0)
    ELSE Raised(p, fs, 1, 1 + net.nredir, 0)

\* the constructors of that header do not read LLAMA_RNG_DEBUG
PriorLocal(kind, seed) ==
    [NoProv EXCEPT !.kind = kind, !.seed = seed, !.rng = EngineSeed(seed)]

\* create_rng_provider of that header
prior_create_rng_provider(type, seed, env, os) ==
    IF type = "normal" THEN Made(TRUE, PriorLocal("normal", seed), <<>>, FALSE)
    ELSE IF type = "external-api"
    THEN IF env.api_url = Unset
         THEN Made(TRUE, PriorLocal("uniform", seed), <<UrlDiag>>, FALSE)
         ELSE Made(TRUE,
                   [NoProv EXCEPT !.kind = "external-api",
                                  !.api_url = env.api_url, !.curl = os.curl_init],
                   IF os.curl_init THEN <<>> ELSE <<"Failed to initialize curl">>,
                   FALSE)
    ELSE Made(TRUE, PriorLocal("uniform", seed), <<>>, FALSE)

PriorRequests == {c \in Requests : c.type # "fpga-serial" /\ c.env.debug = Unset}

PriorCreate(i) ==
    /\ prov[i].kind = "none"
    /\ \E c \in PriorRequests :
          LET m == prior_create_rng_provider(c.type, c.seed, c.env, c.os)
          IN  /\ prov' = [prov EXCEPT ![i] = m.p]
              /\ last' = [Idle EXCEPT !.op = "create", !.inst = i,
                              !.outcome = "returned", !.kind = m.p.kind,
                              !.seed = c.seed, !.type = c.type,
                              !.url_set = (c.env.api_url # Unset),
                              !.diag = m.diag]
              /\ libcurl' = IF m.p.kind = "external-api"
                            THEN curl_global_init(libcurl) ELSE libcurl
    /\ UNCHANGED <<files, capi, par>>

PriorSetOutputFile(i) ==
    /\ prov[i].kind \notin {"none", "deleted"}
    /\ \E filename \in FileNames :
          LET r == prior_set_output_file(prov[i], filename, files)
          IN  /\ prov' = [prov EXCEPT ![i] = [r.p EXCEPT !.ret = <<>>]]
              /\ files' = r.fs
              /\ last' = [Idle EXCEPT !.op = "set_output_file", !.inst = i,
                              !.outcome = "returned", !.kind = prov[i].kind]
    /\ UNCHANGED <<libcurl, capi, par>>

PriorGenerateUniform(i) ==
    /\ prov[i].kind = "uniform"
    /\ prov[i].calls < MaxCalls
    /\ Finish(i, PriorUniformGenerate(prov[i], files), NoNet, 0)

PriorGenerateNormal(i) ==
    /\ prov[i].kind = "normal"
    /\ prov[i].calls < MaxCalls
    /\ Finish(i, PriorNormalGenerate(prov[i], files), NoNet, 0)

PriorGenerateExternal(i) ==
    /\ prov[i].kind = "external-api"
    /\ prov[i].calls < MaxCalls
    /\ \E net \in Nets :
          Finish(i, PriorExternalGenerate(prov[i], files, net), net, 0)

PriorNext ==
    \/ \E i \in Inst : PriorCreate(i)
    \/ \E i \in Inst : PriorSetOutputFile(i)
    \/ \E i \in Inst : PriorGenerateUniform(i)
    \/ \E i \in Inst : PriorGenerateNormal(i)
    \/ \E i \in Inst : PriorGenerateExternal(i)
    \/ \E i \in Inst : Destroy(i)

SpecPrior == Init /\ [][PriorNext]_vars

\* --------------------------------------------- two providers at once
\* One process holds two provider objects, made by two calls of the
\* factory with the same environment, and calls them in any order. The
\* objects are a uniform or an external-api provider each; what the
\* process holds once for both is the state of libcurl and the file
\* system.
Pair == {1, 2}

PairRequests ==
    {c \in Requests : /\ c.env.debug = "1"
                      /\ c.os.failing = "none"
                      /\ \/ c.type = "uniform"
                         \/ c.type = "external-api" /\ c.env.api_url # Unset}

InitPair ==
    /\ prov = [i \in Pair |-> NoProv]
    /\ files = [f \in LogPaths |-> NoFile]
    /\ last = Idle
    /\ libcurl = 0
    /\ capi = NoProviders
    /\ par = NotStarted

PairCreate(i) ==
    /\ prov[i].kind = "none"
    /\ \E c \in PairRequests : Construct(i, c)

\* each provider is given a log file of the process
PairSetOutputFile(i) ==
    /\ prov[i].kind \notin {"none", "deleted"}
    /\ \E filename \in LogPaths : NameFile(i, filename)

\* a transfer that brings a number and one that cannot connect
PairNets ==
    {n \in Nets : /\ n.nredir = 0
                  /\ \/ n.res = "CURLE_COULDNT_CONNECT"
                     \/ n.status = 200 /\ n.body = Body("number", One)}

PairGenerateUniform(i) ==
    /\ prov[i].kind = "uniform"
    /\ prov[i].calls < MaxCalls
    /\ Finish(i, UniformGenerate(prov[i], files, 0), NoNet, 0)

PairGenerateExternal(i) ==
    /\ prov[i].kind = "external-api"
    /\ prov[i].calls < MaxCalls
    /\ \E net \in PairNets :
          Finish(i, ExternalGenerate(prov[i], files, 0, net), net, 0)

NextPair ==
    \/ \E i \in Pair : PairCreate(i)
    \/ \E i \in Pair : PairSetOutputFile(i)
    \/ \E i \in Pair : PairGenerateUniform(i)
    \/ \E i \in Pair : PairGenerateExternal(i)
    \/ \E i \in Pair : Destroy(i)

SpecPair == InitPair /\ [][NextPair]_vars

\* ------------------------------------- the C interface of the provider
\* src/src/llama-rng-provider.cpp: the default provider behind the
\* llama_rng_provider handle and the calls that go through its interface
\* table. capi.ctx holds the context of every handle, capi.done what the
\* last call did.
Handles == {1, 2}

MaxResets == 1

\* get_rng_seed: the seed the engine is set from; for a supplied seed it
\* is that seed
get_rng_seed(seed) == seed

\* struct llama_rng_provider_default
llama_rng_provider_default(seed, seed_cur, rng) ==
    [seed |-> seed, seed_cur |-> seed_cur, rng |-> rng]

llama_rng_provider_default_generate(c) ==
    [value |-> UniformReal(c.rng),
     ctx   |-> [c EXCEPT !.rng = EngineNext(c.rng)]]

\* a clone that sets its engine from the seed again
llama_rng_provider_default_clone_reseeds(c) ==
    llama_rng_provider_default(c.seed, c.seed_cur, EngineSeed(c.seed_cur))

llama_rng_provider_default_clone(c) ==
    llama_rng_provider_default(c.seed, c.seed_cur, c.rng)

\* a reset that stores the seed and leaves the engine where it is
llama_rng_provider_default_reset_keeps_engine(c, seed) ==
    llama_rng_provider_default(seed, get_rng_seed(seed), c.rng)

llama_rng_provider_default_reset(c, seed) ==
    llama_rng_provider_default(seed, get_rng_seed(seed),
                               EngineSeed(get_rng_seed(seed)))

llama_rng_provider_init_default(seed) ==
    llama_rng_provider_default(seed, get_rng_seed(seed),
                               EngineSeed(get_rng_seed(seed)))

\* the calls of the interface: each goes through the table of the default
\* provider to the function above
llama_rng_provider_generate(c) == llama_rng_provider_default_generate(c)

llama_rng_provider_clone(c) == llama_rng_provider_default_clone(c)

llama_rng_provider_reset(c, seed) == llama_rng_provider_default_reset(c, seed)

\* a handle: st is "none" before it exists, "live", or "freed"; d is its
\* context. The other fields record its history: via is the call that
\* last set its engine ("init", "clone", "reset"), mark the state of the
\* engine it then started from (for a clone: the engine of its source at
\* that moment), out the values it returned since, arg the seed that call
\* was given, from the source of a clone and at the number of values the
\* source had returned by then, era counts the resets of the handle and
\* era_src those of the source when it was cloned, gen0 and seed0 are the
\* values returned and the seed held before the last reset
NoHandle ==
    [st |-> "none", d |-> llama_rng_provider_default(0, 0, 0),
     via |-> "", mark |-> 0, out |-> <<>>, arg |-> 0, from |-> 0, at |-> 0,
     era |-> 0, era_src |-> 0, gen0 |-> 0, seed0 |-> 0]

NoCall == [op |-> "none", h |-> 0, src |-> 0, seed |-> 0, value |-> NoVal]

InitDefault ==
    /\ prov = [i \in Inst |-> NoProv]
    /\ files = [f \in LogPaths |-> NoFile]
    /\ last = Idle
    /\ libcurl = 0
    /\ capi = [ctx |-> [h \in Handles |-> NoHandle], done |-> NoCall]
    /\ par = NotStarted

Handled(ctx, done) ==
    /\ capi' = [ctx |-> ctx, done |-> done]
    /\ UNCHANGED <<prov, files, last, libcurl, par>>

ApiInitDefault(h) ==
    /\ capi.ctx[h].st = "none"
    /\ \E seed \in Seeds :
          LET d == llama_rng_provider_init_default(seed)
          IN  Handled([capi.ctx EXCEPT ![h] =
                          [NoHandle EXCEPT !.st = "live", !.d = d, !.via = "init",
                                           !.mark = EngineSeed(get_rng_seed(seed)),
                                           !.arg = seed]],
                      [NoCall EXCEPT !.op = "init_default", !.h = h, !.seed = seed])

ApiGenerate(h) ==
    /\ capi.ctx[h].st = "live"
    /\ Len(capi.ctx[h].out) < MaxCalls
    /\ LET g == llama_rng_provider_generate(capi.ctx[h].d)
       IN  Handled([capi.ctx EXCEPT ![h] =
                       [@ EXCEPT !.d = g.ctx, !.out = Append(@, g.value)]],
                   [NoCall EXCEPT !.op = "generate", !.h = h, !.value = g.value])

ApiClone(h, q) ==
    /\ capi.ctx[h].st = "live"
    /\ capi.ctx[q].st = "none"
    /\ LET d == llama_rng_provider_clone(capi.ctx[h].d)
       IN  Handled([capi.ctx EXCEPT ![q] =
                       [NoHandle EXCEPT !.st = "live", !.d = d, !.via = "clone",
                                        !.mark = capi.ctx[h].d.rng,
                                        !.from = h, !.at = Len(capi.ctx[h].out),
                                        !.era_src = capi.ctx[h].era]],
                   [NoCall EXCEPT !.op = "clone", !.h = q, !.src = h])

ApiReset(h) ==
    /\ capi.ctx[h].st = "live"
    /\ capi.ctx[h].era < MaxResets
    /\ \E seed \in Seeds :
          LET d == llama_rng_provider_reset(capi.ctx[h].d, seed)
          IN  Handled([capi.ctx EXCEPT ![h] =
                          [@ EXCEPT !.d = d, !.via = "reset", !.out = <<>>,
                                    !.mark = EngineSeed(get_rng_seed(seed)),
                                    !.arg = seed, !.from = 0, !.at = 0,
                                    !.era = @ + 1,
                                    !.gen0 = Len(capi.ctx[h].out),
                                    !.seed0 = capi.ctx[h].d.seed]],
                      [NoCall EXCEPT !.op = "reset", !.h = h, !.seed = seed])

\* llama_rng_provider_free deletes the context and the handle
ApiFree(h) ==
    /\ capi.ctx[h].st = "live"
    /\ Handled([capi.ctx EXCEPT ![h] = [@ EXCEPT !.st = "freed"]],
               [NoCall EXCEPT !.op = "free", !.h = h])

NextDefault ==
    \/ \E h \in Handles : ApiInitDefault(h)
    \/ \E h \in Handles : ApiGenerate(h)
    \/ \E h, q \in Handles : ApiClone(h, q)
    \/ \E h \in Handles : ApiReset(h)
    \/ \E h \in Handles : ApiFree(h)

SpecDefault == InitDefault /\ [][NextDefault]_vars

\* ------------------------------------------------ the parallel example
\* src/examples/parallel/parallel.cpp, main: the loop that hands the
\* prompts of the file to the clients and decodes them in batches. par
\* holds the variables of main; a prompt is named by its index in
\* k_prompts.
MaxPrompts == 3

MaxClients == 2

\* -ns (n_sequences), -b (n_batch) and -n (n_predict) of the run
SeqParams == 0..3

BatchParams == {1, 2, 4}

NPredict == 5

\* common_tokenize(ctx, client.prompt, false).size() of prompt k
Tokens(k) == 1 + (k % 2)

\* struct client
NoClient == [seq_id |-> -1, n_prompt |-> 0, n_decoded |-> 0, i_batch |-> -1,
             input |-> -1]

Min(a, b) == IF a < b THEN a ELSE b

\* main up to the loop: n_seq is the number of prompts unless n_sequences
\* is smaller; assigned (every sequence started: its id, client, prompt
\* and whether the client was free) and failed (a llama_decode returned
\* non-zero) record the history of the loop
Started(n_prompts, n_seq_param, n_clients, cont_batching, n_batch) ==
    [pc |-> "top", n_prompts |-> n_prompts, n_seq_param |-> n_seq_param,
     n_seq |-> IF n_seq_param < n_prompts THEN n_seq_param ELSE n_prompts,
     n_clients |-> n_clients, cont_batching |-> cont_batching,
     params_n_batch |-> n_batch,
     clients |-> [c \in 1..n_clients |-> NoClient],
     g_seq_id |-> 0, batch_n |-> 0, i |-> 0, n_batch |-> n_batch,
     results |-> <<>>, assigned |-> <<>>, failed |-> FALSE]

InitParallel ==
    /\ prov = [i \in Inst |-> NoProv]
    /\ files = [f \in LogPaths |-> NoFile]
    /\ last = Idle
    /\ libcurl = 0
    /\ capi = NoProviders
    /\ \E n_prompts \in 1..MaxPrompts, n_seq_param \in SeqParams,
          n_clients \in 0..MaxClients, cont_batching \in BOOLEAN,
          n_batch \in BatchParams :
          par = Started(n_prompts, n_seq_param, n_clients, cont_batching, n_batch)

\* "decode any currently ongoing sequences": clients k.. in turn
RECURSIVE Ongoing(_, _)
Ongoing(m, k) ==
    IF k > Len(m.clients) THEN m
    ELSE IF m.clients[k].seq_id = -1 THEN Ongoing(m, k + 1)
    ELSE Ongoing([m EXCEPT !.clients[k].i_batch = m.batch_n,
                           !.clients[k].n_decoded = @ + 1,
                           !.batch_n = @ + 1], k + 1)

\* "insert new sequences for decoding": clients k.. in turn
RECURSIVE Insert(_, _)
Insert(m, k) ==
    IF k > Len(m.clients) THEN m
    ELSE IF m.clients[k].seq_id = -1 /\ m.g_seq_id < m.n_seq
    THEN LET prompt_idx == m.g_seq_id % m.n_prompts
             n          == m.batch_n + Tokens(prompt_idx)
         IN  Insert([m EXCEPT !.clients[k] =
                                 [seq_id |-> m.g_seq_id, n_prompt |-> Tokens(prompt_idx),
                                  n_decoded |-> 0, i_batch |-> n - 1,
                                  input |-> prompt_idx],
                              !.batch_n = n,
                              !.g_seq_id = @ + 1,
                              !.assigned = Append(@, [seq |-> m.g_seq_id,
                                                      client |-> k - 1,
                                                      prompt |-> prompt_idx,
                                                      free |-> m.clients[k].seq_id = -1])],
                    k + 1)
    ELSE Insert(m, k + 1)

\* the clients whose token lies in the chunk [i, i + n_tokens) sample one
\* token; stops[k] says whether that token ends the response of client k
\* (end of generation, "User:" or a line break)
RECURSIVE Sample(_, _, _, _)
Sample(m, k, n_tokens, stops) ==
    IF k > Len(m.clients) THEN m
    ELSE LET c == m.clients[k]
         IN  IF c.i_batch < m.i \/ c.i_batch >= m.i + n_tokens
             THEN Sample(m, k + 1, n_tokens, stops)
             ELSE IF c.n_decoded > 2
                     /\ (stops[k] \/ (NPredict > 0
                                      /\ c.n_decoded + c.n_prompt >= NPredict))
             THEN Sample([m EXCEPT !.results = Append(@, [prompt |-> c.input,
                                                          seq |-> c.seq_id]),
                                   !.clients[k].seq_id = -1,
                                   !.clients[k].i_batch = -1],
                         k + 1, n_tokens, stops)
             ELSE Sample([m EXCEPT !.clients[k].i_batch = -1],
                         k + 1, n_tokens, stops)

Running(m) ==
    /\ par' = m
    /\ UNCHANGED <<prov, files, last, libcurl, capi>>

\* the head of one turn of while(true): the batch is filled, and the loop
\* is left when it stays empty
Schedule ==
    /\ par.pc = "top"
    /\ LET m1 == Ongoing([par EXCEPT !.batch_n = 0], 1)
           m2 == IF m1.cont_batching \/ m1.batch_n = 0 THEN Insert(m1, 1) ELSE m1
       IN  Running(IF m2.batch_n = 0 THEN [m2 EXCEPT !.pc = "done"]
                   ELSE [m2 EXCEPT !.pc = "decode", !.i = 0,
                                   !.n_batch = m2.params_n_batch])

\* one chunk of the batch is decoded and its clients sample
Decoded ==
    /\ par.pc = "decode"
    /\ \E stops \in [1..Len(par.clients) -> BOOLEAN] :
          LET n_tokens == Min(par.n_batch, par.batch_n - par.i)
              m        == Sample(par, 1, n_tokens, stops)
              i        == par.i + par.n_batch
          IN  Running([m EXCEPT !.i = i,
                                !.pc = IF i < par.batch_n THEN "decode" ELSE "top"])

\* llama_decode returns non-zero: main returns 1 when the chunk is one
\* token or ret is negative, and halves the chunk and decodes it again
\* otherwise
DecodeFailed ==
    /\ par.pc = "decode"
    /\ \E ret \in {-1, 1} :
          Running(IF par.n_batch = 1 \/ ret < 0
                  THEN [par EXCEPT !.pc = "returned", !.failed = TRUE]
                  ELSE [par EXCEPT !.n_batch = par.n_batch \div 2,
                                   !.failed = TRUE])

NextParallel ==
    \/ Schedule
    \/ Decoded
    \/ DecodeFailed

SpecParallel == InitParallel /\ [][NextParallel]_vars

\* -------------------------------------------------------------- claims
Returned == last.op = "generate" /\ last.outcome = "returned"

RaisedNothing ==
    last.outcome = "raised" /\ last.value = NoVal /\ ~last.logged

\* the provider the last operation was called on
Self == prov[last.inst]

\* C1: every value a generate() call returns, on any backend and after any
\* earlier successful or failed calls, satisfies 0 <= v <= 1.
C1_ValueInClosedUnit == Returned => InUnit(last.value)

C1_Witness ==
    /\ Returned /\ last.nth >= 2
    /\ last.kind = "external-api" /\ GtOne(last.raw) /\ last.value = One

\* C2 as stated: every returned value lies in [0, 1): no call returns 1.
C2_Original_NeverOne == Returned => (InUnit(last.value) /\ LtOne(last.value))

\* C2 amended: every returned value lies in [0, 1], and it is exactly 1
\* just when the raw source value is not below 1 (a normal draw or a field
\* random of 1 or more, the serial bytes FF FF FF FF); the uniform backend
\* never returns 1.
C2_OneOnlyFromRawAtLeastOne ==
    Returned =>
        /\ InUnit(last.value)
        /\ (last.value = One) <=> ~LtOne(last.raw)
        /\ last.kind = "uniform" => LtOne(last.value)

C2_Witness ==
    Returned /\ last.kind = "fpga-serial" /\ last.value = One /\ last.nread = 4

\* the k-th value of a std::mt19937 seeded with seed, drawn through
\* std::uniform_real_distribution<>(0.0, 1.0)
RECURSIVE EngineAfter(_, _)
EngineAfter(seed, k) ==
    IF k = 0 THEN EngineSeed(seed) ELSE EngineNext(EngineAfter(seed, k - 1))

NthUniform(seed, k) ==
    Frac(FALSE, Nat2(EngineAfter(seed, k)), Nat2(EngineMod))

\* C3: the k-th value of a uniform provider is a function of its seed and
\* of k alone, so two uniform providers with the same seed agree on every
\* k-th call, whether or not a log is written and wherever it is written.
C3_UniformIsFunctionOfSeedAndCount ==
    (Returned /\ last.kind = "uniform") =>
        last.value = NthUniform(last.seed, last.nth)

C3_Witness ==
    /\ Returned /\ last.kind = "uniform" /\ last.nth = 2 /\ last.logged
    /\ last.value = NthUniform(42, 2)

KnownTypes == {"uniform", "normal", "external-api", "fpga-serial"}

\* the factory put a uniform provider in the place of the requested kind
Substituted ==
    /\ last.op = "create"
    /\ \/ last.type \notin KnownTypes
       \/ last.type = "external-api" /\ ~last.url_set

\* C4: create_rng_provider(type, seed) returns a uniform provider seeded
\* with seed when type is no known kind and when type is external-api
\* without LLAMA_RNG_API_URL; for normal, and for external-api with the
\* URL set, it returns a provider of the requested kind.
C4_FactoryKinds ==
    /\ Substituted =>
          /\ last.outcome = "returned"
          /\ Self.kind = "uniform"
          /\ Self.seed = last.seed /\ Self.rng = EngineSeed(last.seed)
    /\ (last.op = "create" /\ last.type = "normal") =>
          (last.outcome = "returned" /\ Self.kind = "normal"
              /\ Self.rng = EngineSeed(last.seed))
    /\ (last.op = "create" /\ last.type = "external-api" /\ last.url_set) =>
          (last.outcome = "returned" /\ Self.kind = "external-api")

C4_Witness ==
    /\ Substituted /\ last.type = "external-api" /\ Self.kind = "uniform"
    /\ last.seed = 42 /\ Self.debug_enabled

\* C5 as stated: every substitution of a uniform provider comes with a
\* diagnostic message.
C5_Original_NoSilentSubstitution == Substituted => last.diag # <<>>

\* C5 amended: the factory emits its diagnostic when it substitutes a
\* uniform provider for external-api without a configured URL; the
\* substitution for an unknown kind is silent.
C5_DiagnosticOnlyForMissingUrl ==
    Substituted =>
        /\ last.type = "external-api" => last.diag = <<UrlDiag>>
        /\ last.type # "external-api" => last.diag = <<>>

C5_Witness ==
    Substituted /\ last.type = "external-api" /\ last.diag = <<UrlDiag>>

External == last.op = "generate" /\ last.kind = "external-api"

\* a generate() call that could not obtain a value from its source
CannotObtain ==
    /\ last.op = "generate"
    /\ \/ last.kind = "external-api"
          /\ (~last.curl \/ last.res # "CURLE_OK" \/ last.body # "number")
       \/ last.kind = "fpga-serial" /\ last.nread < 4

\* C6: a generate() call that cannot obtain a value raises and returns
\* nothing, never a default value such as 0.5; this includes every call on
\* an external-api provider whose client handle is null.
C6_FailureRaises == CannotObtain => RaisedNothing

\* C7 as stated: every generate() on the external-api provider issues
\* exactly one HTTP GET, whatever the outcome.
C7_Original_ExactlyOneGet == External => last.gets = 1

\* C7 amended: a generate() on an external-api provider whose client handle
\* was initialised makes exactly one transfer: one GET to the configured
\* URL and one more GET for every redirect the transfer follows; with a
\* null handle it issues no request and raises. A failed transfer is not
\* repeated: the call raises, and returns and logs nothing.
C7_OneTransferNoRetry ==
    External =>
        /\ last.performs = (IF last.curl THEN 1 ELSE 0)
        /\ last.gets = last.performs + last.nredir
        /\ ~last.curl => (last.gets = 0 /\ RaisedNothing)
        /\ (last.curl /\ last.res # "CURLE_OK") => RaisedNothing

C7_Witness ==
    /\ External /\ last.curl /\ last.res = "CURLE_OPERATION_TIMEDOUT"
    /\ last.gets = 1 /\ Self.output_file.open /\ last.outcome = "raised"

\* C8: when the body is not JSON, or has no field random, or has a random
\* that is not a number, generate() raises, returns no value and appends
\* no log record; a call that returns has a body with a numeric random.
C8_BadBodyRaises ==
    /\ (External /\ last.res = "CURLE_OK" /\ last.body # "number") => RaisedNothing
    /\ (External /\ last.outcome = "returned") =>
          (last.body = "number" /\ InUnit(last.value))

C8_Witness ==
    /\ External /\ last.res = "CURLE_OK" /\ last.status = 200
    /\ last.body = "not_number" /\ Self.output_file.open
    /\ last.outcome = "raised"

\* C9: when the endpoint answers with a status other than 200, generate()
\* on the external-api provider fails and returns no value, whatever the
\* body.
C9_Non200Fails ==
    (External /\ last.res = "CURLE_OK" /\ last.status # 200) =>
        (last.outcome = "raised" /\ last.value = NoVal)

\* the record the last call appended to the log of its provider
LastRecord == files[Self.output_file.path].lines[Self.output_file.pos]

\* C10: a successful external-api call with random = r returns
\* max(0, min(1, r)): r itself inside [0, 1] (0.73 for 0.73), 0 below,
\* 1 above; the record appended to an open log carries that returned
\* value, in fixed notation with 10 decimals.
C10_ExternalClampAndLog ==
    (External /\ last.outcome = "returned") =>
        /\ InUnit(last.raw) => last.value = last.raw
        /\ LtZero(last.raw) => last.value = Zero
        /\ GtOne(last.raw) => last.value = One
        /\ last.logged = Self.output_file.open
        /\ last.logged =>
              /\ LastRecord.t = "data"
              /\ LastRecord.text = FormatFixed(last.value)
              /\ last.value = Frac(FALSE, Nat2(73), Nat2(100)) =>
                    LastRecord.text = <<0, 7, 3, 0, 0, 0, 0, 0, 0, 0, 0>>
              /\ last.value = One =>
                    LastRecord.text = <<1, 0, 0, 0, 0, 0, 0, 0, 0, 0, 0>>

C10_Witness ==
    /\ External /\ last.outcome = "returned" /\ last.logged
    /\ GtOne(last.raw) /\ last.value = One

\* the integer b0 + 256*b1 + 65536*b2 + 16777216*b3 as <<hi, lo>>
LittleEndian(b) == <<b[3] + 256 * b[4], b[1] + 256 * b[2]>>

SerialReturned == Returned /\ last.kind = "fpga-serial"

\* C11: a successful generate() on the serial provider has read exactly 4
\* bytes b0, b1, b2, b3 in stream order and returns
\* (b0 + 256*b1 + 65536*b2 + 16777216*b3) / 4294967295; the bytes
\* 00 00 00 00 give 0 and the bytes FF FF FF FF give 1.
C11_LittleEndianOverMax ==
    SerialReturned =>
        /\ last.reads = 4 /\ last.nread = 4 /\ Len(last.bytes) = 4
        /\ last.value = Frac(FALSE, LittleEndian(last.bytes), <<65535, 65535>>)
        /\ last.bytes = <<0, 0, 0, 0>> => last.value = Zero
        /\ last.bytes = <<255, 255, 255, 255>> => last.value = One
        /\ last.bytes = <<255, 0, 0, 0>> =>
              last.value = Dbl(FALSE, <<0, 255>>, <<65535, 65535>>)
        /\ last.bytes = <<0, 0, 0, 128>> =>
              last.value = Dbl(FALSE, <<32768, 0>>, <<65535, 65535>>)

C11_Witness ==
    SerialReturned /\ last.bytes = <<255, 0, 0, 0>> /\ last.nth = 2

\* C12: when one of the 4 byte reads of a serial generate() fails or
\* times out, the call raises: it returns no value, builds none from the
\* bytes it has, makes no read after the failed one and appends no log
\* record.
C12_ShortReadRaises ==
    (last.op = "generate" /\ last.kind = "fpga-serial" /\ last.nread < 4) =>
        /\ RaisedNothing
        /\ last.reads = last.nread + 1
        /\ Len(last.bytes) = last.nread

C12_Witness ==
    /\ last.op = "generate" /\ last.kind = "fpga-serial" /\ last.nread = 3
    /\ last.outcome = "raised" /\ Self.output_file.open

SerialCreate == last.op = "create" /\ last.type = "fpga-serial"

\* LLAMA_FPGA_PORT was set when the provider was created
Configured == last.port # Unset

\* the order in which the patterns are to be tried
ScanOrder ==
    <<"/dev/cu.usbserial*", "/dev/tty.usbserial*", "/dev/ttyUSB*", "/dev/cu.usbmodem*">>

\* the existing paths that match the k-th pattern
Found(k) == {q \in last.present : Matches(ScanOrder[k], q)}

\* no device path is configured and none can be detected
Unresolvable == ~Configured /\ \A k \in 1..4 : Found(k) = {}

\* the device cannot be opened
Unopenable ==
    \/ last.failing = "open"
    \/ Configured /\ last.port \notin last.present

\* the platform sets the rate through the Bxxxx constants and the rate has
\* none
BadBaud == last.plat = "linux" /\ last.baud \notin {9600, 115200, 921600}

\* C13: creating a serial provider whose device path cannot be resolved or
\* opened, or whose baud rate is unsupported on the platform that
\* enumerates the rates, fails at construction: no provider exists
\* afterwards (no uniform one, none at another rate, none that would fail
\* at its first generate()); a serial provider that was returned is open
\* at the rate asked for.
C13_ConstructionFails ==
    /\ (SerialCreate /\ (Unresolvable \/ Unopenable \/ BadBaud)) =>
          (last.outcome = "raised" /\ Self.kind = "none")
    /\ (SerialCreate /\ last.outcome = "returned") =>
          (Self.kind = "fpga-serial" /\ is_open(Self)
              /\ Self.baudrate = last.baud)

C13_Witness ==
    /\ SerialCreate /\ BadBaud /\ ~Unresolvable /\ ~Unopenable
    /\ last.failing = "none" /\ last.outcome = "raised"

\* C14: a construction of a serial provider that fails after the device
\* was opened leaves no open handle behind.
C14_FailedConstructionReleasesHandle ==
    (SerialCreate /\ last.outcome = "raised") => ~last.leak

\* C15: a serial provider holds one open handle from the end of its
\* construction to its destruction: a generate() call, returning or
\* raising, leaves the handle as it was, construction leaves no second
\* handle open, destruction closes the handle once and no handle is open
\* afterwards.
C15_OneHandleForLife ==
    /\ \A i \in Inst :
          /\ prov[i].kind = "fpga-serial" => is_open(prov[i])
          /\ prov[i].kind \in {"none", "deleted"} => ~is_open(prov[i])
    /\ (SerialCreate /\ last.outcome = "returned") => ~last.leak
    /\ (last.op = "generate" /\ last.kind = "fpga-serial") =>
          (Self.serial_fd = last.fd /\ last.closes = 0)
    /\ (last.op = "destroy" /\ last.kind = "fpga-serial") =>
          (last.fd >= 0 /\ last.closes = 1 /\ ~is_open(Self))

C15_Witness ==
    /\ last.op = "destroy" /\ last.kind = "fpga-serial" /\ last.closes = 1
    /\ Self.kind = "deleted"

\* path a is sorted before path b by glob()
SortedBefore(a, b) ==
    \E j, k \in 1..Len(DevSorted) : j < k /\ DevSorted[j] = a /\ DevSorted[k] = b

\* C16: without a configured device path the provider uses the first match
\* of the earliest pattern, in the order /dev/cu.usbserial*,
\* /dev/tty.usbserial*, /dev/ttyUSB*, /dev/cu.usbmodem*, that has a match,
\* and its construction fails when no pattern has one; with a configured
\* path it uses that path, whatever a scan would find.
C16_FirstMatchOfEarliestPattern ==
    /\ (SerialCreate /\ Unresolvable) => last.outcome = "raised"
    /\ (SerialCreate /\ Configured /\ last.outcome = "returned") =>
          Self.port_name = last.port
    /\ (SerialCreate /\ ~Configured /\ last.outcome = "returned") =>
          \E k \in 1..4 :
             /\ Self.port_name \in Found(k)
             /\ \A j \in 1..(k - 1) : Found(j) = {}
             /\ \A q \in Found(k) : q = Self.port_name \/ SortedBefore(Self.port_name, q)

C16_Witness ==
    /\ SerialCreate /\ ~Configured /\ last.outcome = "returned"
    /\ last.present = DevPaths /\ Self.port_name = "/dev/cu.usbserial-A1"

Live(p) == p.kind \notin {"none", "deleted"}

\* the file systems in which the run has created and written nothing
Untouched == [LogPaths -> {NoFile, OldFile}]

LogOf(p) == files[p.output_file.path].lines

IsPrefix(a, b) == Len(a) <= Len(b) /\ SubSeq(b, 1, Len(a)) = a

\* C19: the log file is append-only: what a file written by the process
\* holds at one moment is an unmodified prefix of what it holds after any
\* later provider operation.
C19_AppendOnly ==
    [][\A i \in Inst :
          prov[i].output_file.open =>
              IsPrefix(LogOf(prov[i]), files'[prov[i].output_file.path].lines)]_vars

\* C20: between calls the data lines of an open log are the values the
\* successful generate() calls returned since the log was opened, in call
\* order, written in fixed notation with 10 decimals; the value a call
\* returned is in the log's last line when the call has returned.
C20_LogIsReturnedValues ==
    /\ \A i \in Inst :
          prov[i].output_file.open =>
              LET log == LogOf(prov[i])
                  n   == Len(prov[i].ret)
              IN  /\ Len(log) >= n
                  /\ \A k \in 1..n :
                        /\ log[Len(log) - n + k].t = "data"
                        /\ log[Len(log) - n + k].text = FormatFixed(prov[i].ret[k])
                  /\ \A k \in 1..(Len(log) - n) : log[k].t # "data"
    /\ (Returned /\ Self.output_file.open) =>
          /\ last.logged
          /\ Len(Self.ret) > 0 /\ Self.ret[Len(Self.ret)] = last.value
          /\ LogOf(Self)[Len(LogOf(Self))].text = FormatFixed(last.value)

C20_Witness ==
    /\ Returned /\ last.kind = "normal" /\ last.logged /\ Len(Self.ret) = 2
    /\ GtOne(last.raw) /\ Self.ret[1] # Self.ret[2]

\* the data lines of a log, in file order
DataLines(log) == SelectSeq(log, LAMBDA ln : ln.t = "data")

\* C21: in every log file the timestamps of the data lines are
\* non-decreasing in file order.
C21_TimestampsNonDecreasing ==
    \A f \in LogPaths :
        LET d == DataLines(files[f].lines)
        IN  \A j, k \in 1..Len(d) : j < k => d[j].ts <= d[k].ts

\* the k-th draw of a std::mt19937 seeded with seed through
\* std::normal_distribution<>(0.5, 0.15)
NthNormal(seed, k) == NormalReal(EngineAfter(seed, k - 1))

\* C22: the k-th generate() of a normal provider takes one draw, the k-th
\* of its generator, and returns max(0, min(1, raw)): 0 for a draw below
\* 0, 1 for a draw above 1, the draw itself inside [0, 1]; a draw outside
\* the range is not followed by a second one.
C22_NormalClampsOneDraw ==
    (Returned /\ last.kind = "normal") =>
        /\ last.raw = NthNormal(last.seed, last.nth)
        /\ Self.rng = EngineAfter(last.seed, last.nth)
        /\ LtZero(last.raw) => last.value = Zero
        /\ GtOne(last.raw) => last.value = One
        /\ InUnit(last.raw) => last.value = last.raw

C22_Witness ==
    Returned /\ last.kind = "normal" /\ LtZero(last.raw) /\ last.value = Zero

SerialCall == last.op = "generate" /\ last.kind = "fpga-serial"

\* the n bytes of the device's stream that follow the first rx bytes the
\* provider p has read
StreamFrom(p, rx, n) == [k \in 1..n |-> StreamByte(p.start + rx + k - 1)]

\* C24: the stream position of a serial provider moves forward by the
\* bytes a call has read and by nothing else: a call takes the bytes that
\* follow those of the calls before it, whether these returned or failed
\* after j < 4 bytes, and the k-th call of a provider without a failed
\* call uses the bytes 4(k-1)..4k-1.
C24_StreamMovesForward ==
    /\ SerialCall =>
          /\ Self.rx = last.rx + last.nread
          /\ last.bytes = StreamFrom(Self, last.rx, last.nread)
    /\ (SerialReturned /\ last.rx = 4 * (last.nth - 1)) =>
          last.value = Frac(FALSE,
                            LittleEndian(StreamFrom(Self, 4 * (last.nth - 1), 4)),
                            <<65535, 65535>>)

C24_Witness ==
    /\ SerialReturned /\ last.nth = 2 /\ last.rx \in {1, 2}
    /\ Self.rx = last.rx + 4

\* C25: the serial provider writes nothing to the device, in its
\* construction, in generate() and in its destruction: no byte that
\* would toggle the stream is sent by any sequence of operations.
C25_NeverWritesToDevice ==
    \A i \in Inst : prov[i].tx = 0

C25_Witness ==
    SerialCall /\ last.nread = 0 /\ last.outcome = "raised" /\ Self.tx = 0

\* C26: with logging enabled, a set_output_file on a path that cannot be
\* opened returns without an error and opens nothing; the generate()
\* calls after it write nothing, fail only when their source fails, and
\* return the values they return without a log: the k-th value of the
\* seeded generator on the uniform and normal backends.
C26_UnopenableLogIsHarmless ==
    /\ (last.op = "set_output_file" /\ Self.debug_enabled
           /\ last.filename = BadPath) =>
          /\ last.outcome = "returned" /\ ~last.opened /\ ~last.logged
          /\ ~Self.output_file.open
    /\ (last.op = "generate" /\ Self.asked # "") =>
          /\ ~last.logged
          /\ last.outcome = "raised" => CannotObtain
          /\ last.kind = "uniform" =>
                (Returned /\ last.value = NthUniform(last.seed, last.nth))
          /\ last.kind = "normal" =>
                (Returned /\ last.value = Clamp(NthNormal(last.seed, last.nth)))

C26_Witness ==
    /\ Returned /\ last.kind = "uniform" /\ last.nth = 2
    /\ Self.debug_enabled /\ Self.asked = BadPath

\* a provider without the counters of its calls and of the bytes it read
Settled(p) == [p EXCEPT !.calls = 0, !.rx = 0]

\* C27: a generate() that fails changes nothing in its provider but the
\* input it consumed: kind, URL, client handle, descriptor and log stream
\* stay as they were and the log file is not written; no failure is
\* remembered: every call, also after a failed one, returns when its
\* source delivers a valid value.
C27_FailureLatchesNothing ==
    /\ []((last.op = "generate" /\ ~CannotObtain) => Returned)
    /\ [][(last'.op = "generate" /\ last'.outcome = "raised") =>
             /\ Settled(prov'[last'.inst]) = Settled(prov[last'.inst])
             /\ files' = files]_vars

C27_Witness ==
    /\ SerialReturned /\ last.nth = 2 /\ last.rx = 3
    /\ Self.output_file.open

\* the values a default provider returns from the engine state s on: the
\* k-th of them
RECURSIVE DefaultAfter(_, _)
DefaultAfter(c, k) ==
    IF k = 0 THEN c
    ELSE llama_rng_provider_default_generate(DefaultAfter(c, k - 1)).ctx

DefaultNth(c, k) ==
    llama_rng_provider_default_generate(DefaultAfter(c, k - 1)).value

FromState(s, k) == DefaultNth(llama_rng_provider_default(0, 0, s), k)

Cloned(q) == capi.ctx[q].via = "clone"

\* the source of the clone q has not been reset since q was made
SourceKept(q) ==
    /\ Cloned(q)
    /\ capi.ctx[capi.ctx[q].from].era = capi.ctx[q].era_src

\* C28: the k-th value a clone returns is the k-th value its source was
\* about to return when it was cloned, for every k; it is the value the
\* source returns as its k-th after that point when the source gets that
\* far, however the calls on the two are interleaved and whether the
\* source was freed or reset in between.
C28_CloneContinuesSource ==
    \A q \in Handles :
        LET c == capi.ctx[q]
        IN  Cloned(q) =>
              /\ \A k \in 1..Len(c.out) : c.out[k] = FromState(c.mark, k)
              /\ SourceKept(q) =>
                    \A k \in 1..Len(c.out) :
                        c.at + k <= Len(capi.ctx[c.from].out) =>
                            c.out[k] = capi.ctx[c.from].out[c.at + k]

C28_Witness ==
    \E q \in Handles :
        /\ SourceKept(q) /\ capi.ctx[q].at = 1 /\ Len(capi.ctx[q].out) = 1
        /\ Len(capi.ctx[capi.ctx[q].from].out) = 2
        /\ capi.ctx[capi.ctx[q].from].st = "freed"

\* C29: after a reset with a seed the values of a provider are those of a
\* provider made by llama_rng_provider_init_default with that seed,
\* whatever seed it had and however many values it had returned before.
C29_ResetIsFreshProvider ==
    \A h \in Handles :
        LET c == capi.ctx[h]
        IN  c.via = "reset" =>
              \A k \in 1..Len(c.out) :
                  c.out[k] = DefaultNth(llama_rng_provider_init_default(c.arg), k)

C29_Witness ==
    \E h \in Handles :
        /\ capi.ctx[h].via = "reset" /\ Len(capi.ctx[h].out) = 2
        /\ capi.ctx[h].gen0 = 1 /\ capi.ctx[h].seed0 # capi.ctx[h].arg

\* the sequences of the run are started one by one from 0, each on a
\* client that was free, each with the prompt of its own number, and no
\* sequence is recorded twice or with another prompt
InOrder ==
    /\ \A j \in 1..Len(par.assigned) :
          /\ par.assigned[j].seq = j - 1
          /\ par.assigned[j].prompt = j - 1
          /\ par.assigned[j].free
    /\ Len(par.assigned) = par.g_seq_id
    /\ \A j, k \in 1..Len(par.clients) :
          (j # k /\ par.clients[j].seq_id # -1) =>
              par.clients[j].seq_id # par.clients[k].seq_id
    /\ \A j, k \in 1..Len(par.results) :
          /\ par.results[j].prompt = par.results[j].seq
          /\ j # k => par.results[j].seq # par.results[k].seq

AllDone ==
    /\ par.g_seq_id = par.n_seq
    /\ Len(par.results) = par.n_seq
    /\ \A k \in 1..Len(par.clients) : par.clients[k].seq_id = -1

\* C30: with n_seq = min(number of prompts, n_sequences) the sequence ids
\* 0..n_seq-1 are assigned once each, in increasing order, to clients
\* without an active sequence, sequence k uses prompt k, and a loop that
\* ends without a failed decode has recorded n_seq results and has no
\* active client.
C30_EveryPromptOnce ==
    /\ par.n_seq = Min(par.n_prompts, par.n_seq_param)
    /\ InOrder
    /\ par.g_seq_id <= par.n_seq
    /\ (par.pc = "done" /\ ~par.failed) => AllDone

\* the same for a run that has a client
C30_EveryPromptOnceWithClients ==
    par.n_clients >= 1 =>
        /\ InOrder
        /\ par.g_seq_id <= par.n_seq
        /\ par.pc = "done" => AllDone

\* the other of two providers
Other(i) == CHOOSE j \in Pair : j # i

====
